---- MODULE Spec2Model ----
(***************************************************************************)
(* A model of the gitops-flask-series corpus:                              *)
(*   - the Flask responder of src/09/app.py (routes / and /cluster);       *)
(*   - the provisioning smoke tests (TestSmoke of src/03, src/04 and       *)
(*     src/gitops-flask-kubernetes), run by pytest against a cluster;      *)
(*   - the verification-only tests (TestGitOps of src/06, TestGitOps and   *)
(*     TestGitOpsConditional of src/09).                                   *)
(* Text is modelled as a sequence of one-character strings, so that        *)
(* formatting and regular-expression matching are computed, not assumed.   *)
(***************************************************************************)
EXTENDS Naturals, Sequences, FiniteSets

VARIABLES
    \* ---- the responder (src/09/app.py)
    env,            \* the process environment: NAME and CLUSTER, set or unset
    appState,       \* "down" before the module is imported, "up" after
    name,           \* module global `name`
    cluster_name,   \* module global `cluster_name`
    response,       \* the last HTTP response: [route, status, body]
    \* ---- the test harness
    variant,        \* which checkout's tests are run
    kubeContexts,   \* the context names the kubeconfig defines
    currentContext, \* the kubeconfig's current-context, or None
    option,         \* conftest's global `option`: [context |-> --context value]
    nsPhase,        \* the cluster: phase of each namespace
    objs,           \* the cluster: the namespaced objects, [kind, namespace, name]
    pc,             \* per pytest run: its position
    idx,            \* per pytest run: index of the current test in the plan
    condSkip,       \* per pytest run: the skipif mark of TestGitOpsConditional
    outcome,        \* per pytest run: the report of each test
    log,            \* per pytest run: the API requests it has issued, in order
    startNs,        \* per pytest run: phase of test-namespace when the run began
    startQuiet      \* per pytest run: no other run was in progress when it began

appVars == <<env, appState, name, cluster_name, response>>
clusterVars == <<nsPhase, objs>>
confVars == <<variant, kubeContexts, currentContext, option>>
runVars == <<pc, idx, condSkip, outcome, log, startNs, startQuiet>>
vars == <<appVars, clusterVars, confVars, runVars>>

None == "None"

(***************************************************************************)
(* Bounds of the model.                                                    *)
(***************************************************************************)
\* longest value of an environment variable that is enumerated
MaxLen == 2

(***************************************************************************)
(* Text.                                                                   *)
(***************************************************************************)
Lower == {"a","b","c","d","e","f","g","h","i","j","k","l","m",
          "n","o","p","q","r","s","t","u","v","w","x","y","z"}
Upper == {"A","B","C","D","E","F","G","H","I","J","K","L","M",
          "N","O","P","Q","R","S","T","U","V","W","X","Y","Z"}
Digit == {"0","1","2","3","4","5","6","7","8","9"}
\* the characters \w matches (the ASCII ones)
WordChars == Lower \cup Upper \cup Digit \cup {"_"}

\* the characters environment values are built from: word characters of each
\* class, and two that are not word characters
EnvAlphabet == {"a", "7", "_", "-", " "}

RECURSIVE StringsUpTo(_)
StringsUpTo(n) ==
    IF n = 0 THEN {<<>>}
    ELSE LET shorter == StringsUpTo(n - 1)
         IN  shorter \cup {Append(s, c) : s \in shorter, c \in EnvAlphabet}

EnvValues == StringsUpTo(MaxLen)

Unset == [set |-> FALSE, val |-> <<>>]
EnvEntries == {Unset} \cup {[set |-> TRUE, val |-> v] : v \in EnvValues}

IsPrefixAt(pat, data, at) ==
    /\ at + Len(pat) - 1 <= Len(data)
    /\ \A k \in 1..Len(pat) : data[at + k - 1] = pat[k]

(***************************************************************************)
(* The responder, src/09/app.py.                                           *)
(***************************************************************************)
service1 == <<"s","e","r","v","i","c","e","1">>
cluster1 == <<"c","l","u","s","t","e","r","1">>
Hello == <<"h","e","l","l","o">>
ThisIs == <<"T","h","i","s"," ","i","s"," ">>
InCluster == <<" ","i","n"," ","c","l","u","s","t","e","r"," ">>

\* os.getenv(key, default), with the default applied whenever the value is
\* empty as well (the `os.getenv(key) or default` idiom)
getenvOrDefault(e, key, default) ==
    IF e[key].set /\ e[key].val # <<>> THEN e[key].val ELSE default

\* os.getenv(key, default): the default only when the variable is unset
getenv(e, key, default) ==
    IF e[key].set THEN e[key].val ELSE default

\* the f-string with the word "cluster" lost
clusterBodyNoKeyword(n, c) == ThisIs \o n \o <<" ","i","n"," ">> \o c

\* f'This is {name} in cluster {cluster_name}'
clusterBody(n, c) == ThisIs \o n \o InCluster \o c

\* re.match(r'This is (\w+) in cluster (\w+)', data): a match anchored at the
\* start of data and not at its end; the first group takes i >= 1 word
\* characters, the second at least one
re_match(data) ==
    \E i \in 1..Len(data) :
        LET p == Len(ThisIs)
            q == p + i + Len(InCluster)
        IN  /\ q + 1 <= Len(data)
            /\ IsPrefixAt(ThisIs, data, 1)
            /\ \A k \in (p + 1)..(p + i) : data[k] \in WordChars
            /\ IsPrefixAt(InCluster, data, p + i + 1)
            /\ data[q + 1] \in WordChars

NoResponse == [route |-> None, status |-> 0, body |-> <<>>]

\* the module is imported: lines 6 and 7 read the environment once
AppStart ==
    /\ appState = "down"
    /\ appState' = "up"
    /\ name' = getenv(env, "NAME", service1)
    /\ cluster_name' = getenv(env, "CLUSTER", cluster1)
    /\ UNCHANGED <<env, response, clusterVars, confVars, runVars>>

\* GET /
hello ==
    /\ appState = "up"
    /\ response' = [route |-> "/", status |-> 200, body |-> Hello]
    /\ UNCHANGED <<env, appState, name, cluster_name, clusterVars, confVars, runVars>>

\* GET /cluster
cluster ==
    /\ appState = "up"
    /\ response' = [route |-> "/cluster", status |-> 200,
                    body |-> clusterBody(name, cluster_name)]
    /\ UNCHANGED <<env, appState, name, cluster_name, clusterVars, confVars, runVars>>

(***************************************************************************)
(* The cluster, as seen through the Kubernetes API client the tests call.  *)
(* cl is [nsPhase, objs]; every call returns [ok, cl, meta]: whether it    *)
(* returned (ok) or raised ApiException, the cluster after it, and the     *)
(* metadata of the object it returned.                                     *)
(***************************************************************************)
TestNamespace == "test-namespace"
NamespaceNames == {"test-namespace", "service2"}
Phases == {"absent", "Active", "Terminating"}
ObjKinds == {"Deployment", "Service", "Ingress"}
ObjNames == {"flask", "flask-internal", "flask-different-namespace"}
NoMeta == [name |-> None, namespace |-> None]

Obj(kind, ns, n) == [kind |-> kind, namespace |-> ns, name |-> n]
Raised(cl) == [ok |-> FALSE, cl |-> cl, meta |-> NoMeta]
Returned(cl, n, ns) == [ok |-> TRUE, cl |-> cl, meta |-> [name |-> n, namespace |-> ns]]

\* core_v1.create_namespace(body=...): 409 AlreadyExists while a namespace of
\* that name exists, whatever its phase
create_namespace(cl, body) ==
    IF cl.nsPhase[body.name] # "absent"
    THEN Raised(cl)
    ELSE Returned([cl EXCEPT !.nsPhase[body.name] = "Active"], body.name, None)

\* core_v1.read_namespace(name=...): 404 NotFound when there is none
read_namespace(cl, n) ==
    IF cl.nsPhase[n] = "absent" THEN Raised(cl) ELSE Returned(cl, n, None)

\* create_namespaced_deployment / _service / _ingress(body=..., namespace=...):
\* 404 without the namespace, 403 while it terminates, 409 when the object exists
create_namespaced(cl, kind, body, ns) ==
    IF \/ cl.nsPhase[ns] # "Active"
       \/ Obj(kind, ns, body.name) \in cl.objs
    THEN Raised(cl)
    ELSE Returned([cl EXCEPT !.objs = @ \cup {Obj(kind, ns, body.name)}], body.name, ns)

\* read_namespaced_deployment / _service / _ingress(name=..., namespace=...)
read_namespaced(cl, kind, n, ns) ==
    IF Obj(kind, ns, n) \in cl.objs THEN Returned(cl, n, ns) ELSE Raised(cl)

\* a delete that returns only once the namespace and its content are gone
delete_namespace_blocking(cl, n) ==
    IF cl.nsPhase[n] = "absent"
    THEN Raised(cl)
    ELSE Returned([nsPhase |-> [cl.nsPhase EXCEPT ![n] = "absent"],
                   objs |-> {o \in cl.objs : o.namespace # n}], n, None)

\* core_v1.delete_namespace(name=...): marks the namespace Terminating and
\* returns; the cluster removes it later (NamespaceFinalize)
delete_namespace(cl, n) ==
    IF cl.nsPhase[n] = "absent"
    THEN Raised(cl)
    ELSE Returned([cl EXCEPT !.nsPhase[n] = "Terminating"], n, None)

(***************************************************************************)
(* The fixture files the provisioning tests load (yaml.safe_load).         *)
(***************************************************************************)
Manifest(file) ==
    CASE file = "namespace.yaml"  -> [kind |-> "Namespace",  name |-> "test-namespace"]
      [] file = "deployment.yaml" -> [kind |-> "Deployment", name |-> "flask"]
      [] file = "service.yaml"    -> [kind |-> "Service",    name |-> "flask"]
      [] file = "ingress.yaml"    -> [kind |-> "Ingress",    name |-> "flask"]

(***************************************************************************)
(* The test units. manifest is the file a provisioning test submits (None  *)
(* for a verification test); kind, namespace and name are the arguments of *)
(* its read; expName and expNamespace the literals its assertions compare  *)
(* the returned metadata with.                                             *)
(***************************************************************************)
Unit(class, manifest, kind, ns, n) ==
    [class |-> class, manifest |-> manifest, kind |-> kind,
     namespace |-> ns, name |-> n, expName |-> n, expNamespace |-> ns]

SmokeIds == <<"test_create_namespace", "test_create_deployment",
              "test_create_service", "test_create_ingress">>
GitOpsIds == <<"test_flask_application_namespace", "test_flask_application_deployment",
               "test_flask_application_service", "test_flask_application_ingress">>
ConditionalIds == <<"test_flask_internal_application_deployment",
                    "test_flask_internal_application_service",
                    "test_flask_service2_application_namespace",
                    "test_flask_service2_application_deployment",
                    "test_flask_service2_application_service">>
Range(s) == {s[i] : i \in 1..Len(s)}
TestIds == Range(SmokeIds) \cup Range(GitOpsIds) \cup Range(ConditionalIds)

\* test_create_deployment reading back a name the manifest does not create
SmokeDefWrongRead(t) ==
    CASE t = "test_create_namespace" ->
            Unit("TestSmoke", "namespace.yaml", "Namespace", None, "test-namespace")
      [] t = "test_create_deployment" ->
            Unit("TestSmoke", "deployment.yaml", "Deployment", "test-namespace", "flask-internal")
      [] t = "test_create_service" ->
            Unit("TestSmoke", "service.yaml", "Service", "test-namespace", "flask")
      [] t = "test_create_ingress" ->
            Unit("TestSmoke", "ingress.yaml", "Ingress", "test-namespace", "flask")

\* the test units of TestSmoke
SmokeDef(t) ==
    CASE t = "test_create_namespace" ->
            Unit("TestSmoke", "namespace.yaml", "Namespace", None, "test-namespace")
      [] t = "test_create_deployment" ->
            Unit("TestSmoke", "deployment.yaml", "Deployment", "test-namespace", "flask")
      [] t = "test_create_service" ->
            Unit("TestSmoke", "service.yaml", "Service", "test-namespace", "flask")
      [] t = "test_create_ingress" ->
            Unit("TestSmoke", "ingress.yaml", "Ingress", "test-namespace", "flask")

\* the test units of TestGitOps and TestGitOpsConditional
GitOpsDef(t) ==
    CASE t = "test_flask_application_namespace" ->
            Unit("TestGitOps", None, "Namespace", None, "test-namespace")
      [] t = "test_flask_application_deployment" ->
            Unit("TestGitOps", None, "Deployment", "test-namespace", "flask")
      [] t = "test_flask_application_service" ->
            Unit("TestGitOps", None, "Service", "test-namespace", "flask")
      [] t = "test_flask_application_ingress" ->
            Unit("TestGitOps", None, "Ingress", "test-namespace", "flask")
      [] t = "test_flask_internal_application_deployment" ->
            Unit("TestGitOpsConditional", None, "Deployment", "test-namespace", "flask-internal")
      [] t = "test_flask_internal_application_service" ->
            Unit("TestGitOpsConditional", None, "Service", "test-namespace", "flask-internal")
      [] t = "test_flask_service2_application_namespace" ->
            Unit("TestGitOpsConditional", None, "Namespace", None, "service2")
      [] t = "test_flask_service2_application_deployment" ->
            Unit("TestGitOpsConditional", None, "Deployment", "service2", "flask-different-namespace")
      [] t = "test_flask_service2_application_service" ->
            Unit("TestGitOpsConditional", None, "Service", "service2", "flask-different-namespace")

TestDef(t) == IF t \in Range(SmokeIds) THEN SmokeDef(t) ELSE GitOpsDef(t)

SmokeVariants == {"03", "04", "gfk"}
GitOpsVariants == {"06", "09"}

\* the deployment test declared before the namespace test
SmokePlanDeploymentFirst(v) ==
    CASE v = "03"  -> <<SmokeIds[2], SmokeIds[1]>>
      [] v = "04"  -> <<SmokeIds[2], SmokeIds[1], SmokeIds[3], SmokeIds[4]>>
      [] v = "gfk" -> SubSeq(SmokeIds, 1, 1)

\* the tests of TestSmoke in each checkout, in declaration order
SmokePlan(v) ==
    CASE v = "03"  -> SubSeq(SmokeIds, 1, 2)
      [] v = "04"  -> SmokeIds
      [] v = "gfk" -> SubSeq(SmokeIds, 1, 1)

\* the tests of test_gitops.py in each checkout, in declaration order
GitOpsPlan(v) ==
    CASE v = "06"  -> GitOpsIds
      [] v = "09"  -> GitOpsIds \o ConditionalIds

\* pytest runs the tests of a module in declaration order
Plan(v) == IF v \in SmokeVariants THEN SmokePlan(v) ELSE GitOpsPlan(v)

\* where each checkout defines teardown_class: as a method of TestSmoke
\* ("class"), at module level ("module"), or not at all
TeardownScope(v) ==
    CASE v \in {"03", "04"} -> "class"
      [] v = "gfk" -> "module"
      [] OTHER -> "none"

(***************************************************************************)
(* Configuration: conftest's option, load_kube_config, the skipif mark.    *)
(***************************************************************************)
ContextNames == {"kind-cluster1", "kind-cluster2", "kind-cluster3", "minikube"}

\* the context each checkout passes to load_kube_config
ContextOf(v, opt) == IF v = "09" THEN opt.context ELSE "kind-cluster1"

\* config.load_kube_config(context=ctx) returns (TRUE) or raises
\* ConfigException: a named context must be one the kubeconfig defines, and
\* None selects the kubeconfig's current-context
load_kube_config(ctx, contexts, current) ==
    IF ctx = None THEN current \in contexts ELSE ctx \in contexts

\* a denylist that lost kind-cluster2
skipifOnlyCluster3(ctx) == ctx \in {"kind-cluster3"}

\* the condition of @pytest.mark.skipif on TestGitOpsConditional
skipif(ctx) == ctx \in {"kind-cluster2", "kind-cluster3"}

(***************************************************************************)
(* A pytest run. Every API request is one step, since the cluster may      *)
(* change between two requests of a run (another run, the cluster's own    *)
(* namespace controller).                                                  *)
(***************************************************************************)
Runs == {"run1", "run2"}
Cluster == [nsPhase |-> nsPhase, objs |-> objs]
Entry(op, t, res) == [op |-> op, test |-> t, ok |-> res.ok, meta |-> res.meta]
Current(r) == Plan(variant)[idx[r]]
Finished(r) == pc[r] \in {"done", "error"}

\* the create call of a provisioning test
ApiCreate(cl, d) ==
    IF d.kind = "Namespace"
    THEN create_namespace(cl, Manifest(d.manifest))
    ELSE create_namespaced(cl, d.kind, Manifest(d.manifest), d.namespace)

\* a read that creates the object when it is missing (get-or-create)
ApiReadOrCreate(cl, d) ==
    IF d.kind = "Namespace"
    THEN IF cl.nsPhase[d.name] = "absent"
         THEN Returned([cl EXCEPT !.nsPhase[d.name] = "Active"], d.name, None)
         ELSE read_namespace(cl, d.name)
    ELSE IF Obj(d.kind, d.namespace, d.name) \in cl.objs
         THEN read_namespaced(cl, d.kind, d.name, d.namespace)
         ELSE Returned([cl EXCEPT !.objs = @ \cup {Obj(d.kind, d.namespace, d.name)}],
                       d.name, d.namespace)

\* the read call of a test
ApiRead(cl, d) ==
    IF d.kind = "Namespace"
    THEN read_namespace(cl, d.name)
    ELSE read_namespaced(cl, d.kind, d.name, d.namespace)

\* the assert statements of a test on result.metadata
IdentityHolds(d, meta) ==
    /\ d.expName = meta.name
    /\ d.kind # "Namespace" => d.expNamespace = meta.namespace

\* a create wrapped in try/except: the test goes on to its read
AfterCreateSwallowed(ok) == "read"

\* the statement after a create call: the read when it returned; when it
\* raised, nothing catches the exception and the test unit ends, failed
AfterCreate(ok) == IF ok THEN "read" ELSE "abort"

\* a runner that stops at the first failure (pytest -x)
NextIndexExitFirst(v, i, verdict) ==
    IF verdict = "failed" THEN Len(Plan(v)) + 1 ELSE i + 1

\* pytest goes on to the next test unit whatever the verdict of this one
NextIndex(v, i, verdict) == i + 1

\* pytest calls teardown_class only when it is a method of the class
HasClassTeardown(v) == TeardownScope(v) = "class"

\* the position at which test i of the plan begins (or what follows the plan)
EntryPc(v, i, skip) ==
    IF i > Len(Plan(v))
    THEN IF HasClassTeardown(v) THEN "teardown" ELSE "done"
    ELSE LET d == TestDef(Plan(v)[i])
         IN  IF d.class = "TestGitOpsConditional" /\ skip THEN "skip"
             ELSE IF d.manifest # None THEN "create"
             ELSE "read"

\* the run moves from test idx[r], reported with verdict, to what follows
Advance(r, verdict) ==
    LET j == NextIndex(variant, idx[r], verdict)
    IN  /\ outcome' = [outcome EXCEPT ![r][Current(r)] = verdict]
        /\ idx' = [idx EXCEPT ![r] = j]
        /\ pc' = [pc EXCEPT ![r] = EntryPc(variant, j, condSkip[r])]

\* pytest imports the test module: load_kube_config, then the skipif mark;
\* an exception here is a collection error and no test is run
Collect(r) ==
    /\ pc[r] = "idle"
    /\ startNs' = [startNs EXCEPT ![r] = nsPhase[TestNamespace]]
    /\ startQuiet' = [startQuiet EXCEPT
                        ![r] = \A o \in Runs \ {r} : pc[o] = "idle" \/ Finished(o)]
    /\ IF load_kube_config(ContextOf(variant, option), kubeContexts, currentContext)
       THEN LET skip == variant = "09" /\ skipif(option.context)
            IN  /\ condSkip' = [condSkip EXCEPT ![r] = skip]
                /\ idx' = [idx EXCEPT ![r] = 1]
                /\ pc' = [pc EXCEPT ![r] = EntryPc(variant, 1, skip)]
       ELSE /\ pc' = [pc EXCEPT ![r] = "error"]
            /\ UNCHANGED <<condSkip, idx>>
    /\ UNCHANGED <<outcome, log, appVars, clusterVars, confVars>>

\* the create call of the current test
Create(r) ==
    /\ pc[r] = "create"
    /\ LET res == ApiCreate(Cluster, TestDef(Current(r)))
       IN  /\ log' = [log EXCEPT ![r] = Append(@, Entry("create", Current(r), res))]
           /\ nsPhase' = res.cl.nsPhase
           /\ objs' = res.cl.objs
           /\ IF AfterCreate(res.ok) = "read"
              THEN /\ pc' = [pc EXCEPT ![r] = "read"]
                   /\ UNCHANGED <<outcome, idx>>
              ELSE Advance(r, "failed")
    /\ UNCHANGED <<condSkip, startNs, startQuiet, appVars, confVars>>

\* the read call of the current test and its assertions
Read(r) ==
    /\ pc[r] = "read"
    /\ LET d == TestDef(Current(r))
           res == ApiRead(Cluster, d)
       IN  /\ log' = [log EXCEPT ![r] = Append(@, Entry("read", Current(r), res))]
           /\ nsPhase' = res.cl.nsPhase
           /\ objs' = res.cl.objs
           /\ Advance(r, IF res.ok /\ IdentityHolds(d, res.meta) THEN "passed" ELSE "failed")
    /\ UNCHANGED <<condSkip, startNs, startQuiet, appVars, confVars>>

\* a test of a class marked skip is reported skipped; its body is not run
Skip(r) ==
    /\ pc[r] = "skip"
    /\ Advance(r, "skipped")
    /\ UNCHANGED <<log, condSkip, startNs, startQuiet, appVars, clusterVars, confVars>>

\* teardown_class with a delete that waits for the namespace to be gone
TeardownBlocking(r) ==
    /\ pc[r] = "teardown"
    /\ LET res == delete_namespace_blocking(Cluster, TestNamespace)
       IN  /\ log' = [log EXCEPT ![r] = Append(@, Entry("delete", "teardown_class", res))]
           /\ nsPhase' = res.cl.nsPhase
           /\ objs' = res.cl.objs
    /\ pc' = [pc EXCEPT ![r] = "done"]
    /\ UNCHANGED <<idx, outcome, condSkip, startNs, startQuiet, appVars, confVars>>

\* teardown_class: one delete_namespace request, and the run is over
Teardown(r) ==
    /\ pc[r] = "teardown"
    /\ LET res == delete_namespace(Cluster, TestNamespace)
       IN  /\ log' = [log EXCEPT ![r] = Append(@, Entry("delete", "teardown_class", res))]
           /\ nsPhase' = res.cl.nsPhase
           /\ objs' = res.cl.objs
    /\ pc' = [pc EXCEPT ![r] = "done"]
    /\ UNCHANGED <<idx, outcome, condSkip, startNs, startQuiet, appVars, confVars>>

\* the cluster completes a namespace deletion: its content and then the
\* namespace itself are removed, some time after delete_namespace returned
NamespaceFinalize ==
    /\ \E n \in NamespaceNames :
        /\ nsPhase[n] = "Terminating"
        /\ nsPhase' = [nsPhase EXCEPT ![n] = "absent"]
        /\ objs' = {o \in objs : o.namespace # n}
    /\ UNCHANGED <<appVars, confVars, runVars>>

(***************************************************************************)
(* Initial states and specifications.                                      *)
(***************************************************************************)
IdleRuns ==
    /\ pc = [r \in Runs |-> "idle"]
    /\ idx = [r \in Runs |-> 0]
    /\ condSkip = [r \in Runs |-> FALSE]
    /\ outcome = [r \in Runs |-> [t \in TestIds |-> "notrun"]]
    /\ log = [r \in Runs |-> <<>>]
    /\ startNs = [r \in Runs |-> None]
    /\ startQuiet = [r \in Runs |-> FALSE]

AppUnused ==
    /\ env = [k \in {"NAME", "CLUSTER"} |-> Unset]
    /\ appState = "down"
    /\ name = <<>>
    /\ cluster_name = <<>>
    /\ response = NoResponse

HarnessUnused ==
    /\ variant = None
    /\ kubeContexts = {}
    /\ currentContext = None
    /\ option = [context |-> None]
    /\ nsPhase = [n \in NamespaceNames |-> "absent"]
    /\ objs = {}
    /\ IdleRuns

\* the objects the tests name, by namespace
KnownObjs(n) ==
    IF n = "test-namespace"
    THEN {Obj(k, n, "flask") : k \in ObjKinds}
         \cup {Obj(k, n, "flask-internal") : k \in {"Deployment", "Service"}}
    ELSE {Obj(k, n, "flask-different-namespace") : k \in {"Deployment", "Service"}}

\* a cluster holds objects only in namespaces that exist
WellFormed(ph, os) == \A o \in os : ph[o.namespace] # "absent"

\* the responder: any environment, process not yet started
InitApp ==
    /\ env \in [{"NAME", "CLUSTER"} -> EnvEntries]
    /\ appState = "down"
    /\ name = <<>>
    /\ cluster_name = <<>>
    /\ response = NoResponse
    /\ HarnessUnused

NextApp == AppStart \/ hello \/ cluster

SpecApp == InitApp /\ [][NextApp]_vars

\* provisioning: a kubeconfig that defines kind-cluster1, and a cluster in
\* which test-namespace is absent, present or being deleted
InitSmoke ==
    /\ AppUnused
    /\ variant \in SmokeVariants
    /\ kubeContexts = {"kind-cluster1"}
    /\ currentContext = "kind-cluster1"
    /\ option = [context |-> None]
    /\ nsPhase \in [NamespaceNames -> Phases]
    /\ nsPhase["service2"] = "absent"
    /\ objs \in SUBSET {Obj(k, TestNamespace, "flask") : k \in ObjKinds}
    /\ WellFormed(nsPhase, objs)
    /\ IdleRuns

NextSmoke ==
    \/ \E r \in Runs : Collect(r)
    \/ \E r \in Runs : Create(r)
    \/ \E r \in Runs : Read(r)
    \/ \E r \in Runs : Teardown(r)
    \/ NamespaceFinalize

SpecSmoke == InitSmoke /\ [][NextSmoke]_vars

\* verification only: one run, any --context, any kubeconfig, and a cluster
\* holding any of the objects the GitOps controller may have deployed
InitGitOps ==
    /\ AppUnused
    /\ variant \in GitOpsVariants
    /\ kubeContexts \in SUBSET ContextNames
    /\ currentContext \in kubeContexts \cup {None}
    /\ option \in [context : ContextNames \cup {None}]
    /\ nsPhase \in [NamespaceNames -> {"absent", "Active"}]
    /\ objs \in SUBSET (KnownObjs("test-namespace") \cup KnownObjs("service2"))
    /\ WellFormed(nsPhase, objs)
    /\ IdleRuns

NextGitOps == Collect("run1") \/ Read("run1") \/ Skip("run1")

SpecGitOps == InitGitOps /\ [][NextGitOps]_vars

(***************************************************************************)
(* Properties of the responder (checked under SpecApp).                    *)
(***************************************************************************)
ServedCluster == appState = "up" /\ response.route = "/cluster"
NonEmpty(k) == env[k].set /\ env[k].val # <<>>
AllWord(s) == \A i \in 1..Len(s) : s[i] \in WordChars
DefaultBody ==
    <<"T","h","i","s"," ","i","s"," ","s","e","r","v","i","c","e","1",
      " ","i","n"," ","c","l","u","s","t","e","r"," ","c","l","u","s","t","e","r","1">>

\* C2, as stated: for any non-empty NAME and CLUSTER, the body of GET /cluster
\* matches This is (\w+) in cluster (\w+).
C2_AnyNonEmptyMatches ==
    (ServedCluster /\ NonEmpty("NAME") /\ NonEmpty("CLUSTER"))
        => re_match(response.body)

\* C2, amended: for any non-empty NAME and CLUSTER made only of word
\* characters, the body of GET /cluster matches the pattern.
C2_WordValuesMatch ==
    (ServedCluster /\ NonEmpty("NAME") /\ NonEmpty("CLUSTER")
        /\ AllWord(env["NAME"].val) /\ AllWord(env["CLUSTER"].val))
        => re_match(response.body)

C2_Witness ==
    /\ ServedCluster
    /\ env["NAME"].val = <<"a", "7">>
    /\ env["CLUSTER"].val = <<"_">>
    /\ re_match(response.body)

\* C3: with NAME and CLUSTER both unset the body of GET /cluster is exactly
\* "This is service1 in cluster cluster1"; each default is applied on its own,
\* and only to a variable that is unset: a set value, the empty one included,
\* is used as it is.
C3_Defaults ==
    ServedCluster =>
        LET n == IF env["NAME"].set THEN env["NAME"].val
                 ELSE <<"s","e","r","v","i","c","e","1">>
            c == IF env["CLUSTER"].set THEN env["CLUSTER"].val
                 ELSE <<"c","l","u","s","t","e","r","1">>
        IN  /\ (~env["NAME"].set /\ ~env["CLUSTER"].set) => response.body = DefaultBody
            /\ response.body =
                 <<"T","h","i","s"," ","i","s"," ">> \o n
                 \o <<" ","i","n"," ","c","l","u","s","t","e","r"," ">> \o c

C3_Witness ==
    /\ ServedCluster
    /\ ~env["NAME"].set
    /\ ~env["CLUSTER"].set
    /\ response.body = DefaultBody

(***************************************************************************)
(* Properties of the verification-only tests (checked under SpecGitOps).   *)
(***************************************************************************)
Entries(r, t) == {i \in 1..Len(log[r]) : log[r][i].test = t}
ReadIssued(r, t) == \E i \in Entries(r, t) : log[r][i].op = "read"
Reported(r, t) == outcome[r][t] \in {"passed", "failed"}
Executed(r, t) == ReadIssued(r, t) /\ Reported(r, t)
Untouched(r, t) == ~ReadIssued(r, t) /\ ~Reported(r, t)
Denied == option.context \in {"kind-cluster2", "kind-cluster3"}
Conditional == Range(ConditionalIds)
Unconditional == Range(GitOpsIds)

\* C1, as stated: in src/09, with --context kind-cluster2 or kind-cluster3 no
\* test of the conditional group issues a read or is reported passed or
\* failed; with any other context value a finished run has executed all five;
\* and a finished run has executed the unconditional group, whatever the context.
C1_SkipForEveryContext ==
    variant = "09" =>
        /\ Denied => \A t \in Conditional : Untouched("run1", t)
        /\ Finished("run1") =>
              /\ ~Denied => \A t \in Conditional : Executed("run1", t)
              /\ \A t \in Unconditional : Executed("run1", t)

\* C1, amended: the same, for the context values load_kube_config accepts (a
\* context of the kubeconfig, or no --context and a current-context); with any
\* other value the import of the test module raises and no test of either
\* group is executed.
C1_SkipForLoadedContext ==
    variant = "09" =>
        /\ Denied => \A t \in Conditional : Untouched("run1", t)
        /\ pc["run1"] = "done" =>
              /\ load_kube_config(option.context, kubeContexts, currentContext)
              /\ Denied => \A t \in Conditional : outcome["run1"][t] = "skipped"
              /\ ~Denied => \A t \in Conditional : Executed("run1", t)
              /\ \A t \in Unconditional : Executed("run1", t)
        /\ pc["run1"] = "error" =>
              /\ ~load_kube_config(option.context, kubeContexts, currentContext)
              /\ \A t \in Conditional \cup Unconditional : Untouched("run1", t)

C1_Witness ==
    /\ variant = "09"
    /\ option.context = "kind-cluster2"
    /\ pc["run1"] = "done"
    /\ \A t \in Conditional : outcome["run1"][t] = "skipped" /\ ~ReadIssued("run1", t)
    /\ \A t \in Unconditional : Executed("run1", t)
    /\ \E t \in Unconditional : outcome["run1"][t] = "passed"

\* C10: verification-only mode never mutates the cluster: every step of a run
\* of TestGitOps / TestGitOpsConditional leaves namespaces and objects as they
\* were, every request it issues is a read, and it has no teardown.
C10_ReadOnly ==
    [][/\ nsPhase' = nsPhase
       /\ objs' = objs
       /\ \A r \in Runs : \A i \in 1..Len(log'[r]) : log'[r][i].op = "read"
       /\ \A r \in Runs : pc'[r] # "teardown"]_vars

C10_Witness ==
    /\ variant = "09"
    /\ pc["run1"] = "done"
    /\ objs # {}
    /\ \E t \in Unconditional : outcome["run1"][t] = "passed"
    /\ \E t \in Unconditional : outcome["run1"][t] = "failed"
    /\ \E t \in Conditional : outcome["run1"][t] = "failed"
    /\ Len(log["run1"]) = Len(Plan("09"))

(***************************************************************************)
(* Properties of the provisioning tests (checked under SpecSmoke).         *)
(***************************************************************************)
Others(r) == Runs \ {r}
Tests == Range(Plan(variant))
Last(q) == q[Len(q)]
Deletes(r) == {i \in 1..Len(log[r]) : log[r][i].op = "delete"}
CreateRaised(r, t) == \E i \in Entries(r, t) : log[r][i].op = "create" /\ ~log[r][i].ok
\* run r began where test-namespace did not exist, and no other run has
\* sent the cluster a request
Alone(r) == startNs[r] = "absent" /\ \A o \in Others(r) : log[o] = <<>>

\* C4: a provisioning run that starts without test-namespace and is alone on
\* the cluster issues its create-then-read pairs in declaration order
\* (namespace, deployment, service, ingress); every create returns and every
\* read returns the object just created, named test-namespace for the
\* namespace and flask in test-namespace for the others; every test passes.
C4_AloneRunPasses ==
    \A r \in Runs : Alone(r) =>
        /\ \A t \in TestIds : outcome[r][t] # "failed"
        /\ \A i \in 1..Len(log[r]) : log[r][i].op # "delete" =>
              /\ log[r][i].ok
              /\ log[r][i].test = SmokeIds[(i + 1) \div 2]
              /\ log[r][i].op = (IF i % 2 = 1 THEN "create" ELSE "read")
              /\ log[r][i].meta =
                    (IF log[r][i].test = "test_create_namespace"
                     THEN [name |-> "test-namespace", namespace |-> None]
                     ELSE [name |-> "flask", namespace |-> "test-namespace"])
        /\ pc[r] = "done" =>
              /\ \A t \in Tests : outcome[r][t] = "passed"
              /\ Len(log[r]) >= 2 * Len(Plan(variant))

C4_Witness ==
    /\ variant = "04"
    /\ Alone("run1")
    /\ pc["run1"] = "done"
    /\ \A t \in Range(SmokeIds) : outcome["run1"][t] = "passed"
    /\ objs = {Obj(k, "test-namespace", "flask") : k \in ObjKinds}

\* C5: namespace creation is not idempotent: whenever the create call of
\* test_create_namespace is issued while test-namespace exists, Active or
\* Terminating, the call raises, the test is reported failed there and then,
\* and its read is not issued.
C5_CreateOnExistingFails ==
    [][\A r \in Runs :
        (/\ pc[r] = "create"
         /\ Current(r) = "test_create_namespace"
         /\ nsPhase[TestNamespace] # "absent"
         /\ log'[r] # log[r])
        => /\ ~Last(log'[r]).ok
           /\ outcome'[r]["test_create_namespace"] = "failed"
           /\ pc'[r] # "read"
           /\ nsPhase' = nsPhase]_vars

C5_Witness ==
    \E r \in Runs :
        /\ startNs[r] = "Terminating"
        /\ nsPhase[TestNamespace] = "Terminating"
        /\ outcome[r]["test_create_namespace"] = "failed"
        /\ Len(log[r]) = 1
        /\ ~log[r][1].ok

\* C6: a create call that raises ends its own test unit only: the test is
\* reported failed, its read is never issued and the create is not repeated;
\* the run still goes through every later test of the class and, where the
\* class has one, its teardown.
C6_FaultEndsOwnTestOnly ==
    \A r \in Runs :
        /\ \A t \in Tests : CreateRaised(r, t) =>
              /\ outcome[r][t] = "failed"
              /\ Cardinality(Entries(r, t)) = 1
        /\ (pc[r] = "done" /\ \E t \in Tests : CreateRaised(r, t)) =>
              /\ \A t \in Tests : outcome[r][t] \in {"passed", "failed"} /\ Entries(r, t) # {}
              /\ TeardownScope(variant) = "class" =>
                    Deletes(r) # {} /\ Last(log[r]).op = "delete"

C6_Witness ==
    /\ variant = "04"
    /\ pc["run1"] = "done"
    /\ log["run2"] = <<>>
    /\ CreateRaised("run1", "test_create_namespace")
    /\ \A t \in Range(SmokeIds) \ {"test_create_namespace"} :
          \E i \in Entries("run1", t) : log["run1"][i].op = "create"
    /\ Last(log["run1"]).op = "delete"

\* C7, as stated: in every checkout that defines teardown_class (src/03,
\* src/04, src/gitops-flask-kubernetes) a run issues exactly one
\* delete_namespace request, after its last test has finished, whether the
\* tests passed or failed, and none before.
C7_OneDeleteAfterLastTest ==
    \A r \in Runs : TeardownScope(variant) \in {"class", "module"} =>
        /\ pc[r] = "done" =>
              /\ Cardinality(Deletes(r)) = 1
              /\ Last(log[r]).op = "delete"
              /\ Last(log[r]).meta.name \in {"test-namespace", None}
        /\ pc[r] # "done" => Deletes(r) = {}

\* C8: teardown is fire-and-forget: the step that issues the delete is the
\* run's last, the run does not look at its outcome, and a namespace that
\* existed is still there, Terminating, with all its objects, when the run has
\* finished.
C8_TeardownDoesNotWait ==
    [][\A r \in Runs :
        (pc[r] = "teardown" /\ pc'[r] # "teardown")
        => /\ pc'[r] = "done"
           /\ Len(log'[r]) = Len(log[r]) + 1
           /\ Last(log'[r]).op = "delete"
           /\ outcome'[r] = outcome[r]
           /\ objs' = objs
           /\ nsPhase[TestNamespace] # "absent" => nsPhase'[TestNamespace] = "Terminating"]_vars

\* the run has finished while test-namespace and its objects still exist, and
\* a run started right after it has failed on its first create
C8_Witness ==
    /\ variant = "04"
    /\ startNs["run1"] = "absent"
    /\ pc["run1"] = "done"
    /\ Last(log["run1"]).op = "delete"
    /\ Last(log["run1"]).ok
    /\ nsPhase[TestNamespace] = "Terminating"
    /\ objs = {Obj(k, "test-namespace", "flask") : k \in ObjKinds}
    /\ startQuiet["run2"]
    /\ startNs["run2"] = "Terminating"
    /\ CreateRaised("run2", "test_create_namespace")
    /\ outcome["run2"]["test_create_namespace"] = "failed"

\* C9: two provisioning runs are not isolated: a run that began without
\* test-namespace (and so passes when alone) can fail, and whenever it does,
\* another run has changed the cluster under it: created an object of the
\* same fixed name, or deleted the namespace.
C9_FailureComesFromOtherRun ==
    \A r \in Runs :
        (startNs[r] = "absent" /\ \E t \in TestIds : outcome[r][t] = "failed")
        => \E o \in Others(r) : \E i \in 1..Len(log[o]) :
              /\ log[o][i].ok
              /\ log[o][i].op \in {"create", "delete"}

\* both runs began without test-namespace; one fails on a create that
\* conflicts with the other's object, the other on a read after the first
\* one's teardown
C9_Witness ==
    \E r \in Runs : \E o \in Others(r) :
        /\ variant = "04"
        /\ startNs[r] = "absent"
        /\ startNs[o] = "absent"
        /\ CreateRaised(r, "test_create_deployment")
        /\ \E i \in Entries(o, "test_create_deployment") :
              log[o][i].op = "create" /\ log[o][i].ok
        /\ \E t \in Tests : \E i \in Entries(o, t) : log[o][i].op = "read" /\ ~log[o][i].ok

====
